---- MODULE Spec2Model ----
(***************************************************************************)
(* TlsClientStreamBuilder (crates/proto/src/native_tls/                    *)
(* tls_client_stream.rs): construction of a (future, handle) pair for a    *)
(* DNS-over-TLS client stream.                                             *)
(*                                                                         *)
(* The builder is a newtype over TlsStreamBuilder.  build and              *)
(* build_with_future delegate to it, obtaining (stream_future, sender),    *)
(* wrap stream_future in map_ok(TcpClientStream::from_stream) and          *)
(* map_err(ProtoError::from), box it, and return it with the sender.       *)
(*                                                                         *)
(* TlsStreamBuilder, BufDnsStreamHandle, TcpClientStream::from_stream and  *)
(* ProtoError::from live in other files of the crate; they are modelled    *)
(* here from the specification's description of the collaborators.         *)
(***************************************************************************)
EXTENDS Integers, Sequences, FiniteSets, TLC

\* ---------------------------------------------------------------- bounds
MaxBuilders == 2
MaxCa == 2
MaxQueue == 1

Builders == 1..MaxBuilders
ChanIds == 1..MaxBuilders

\* ---------------------------------------------------------------- inputs
Addrs == {"93.184.216.34:853", "10.0.0.1:853"}
BindAddrs == {"127.0.0.1:0", "192.0.2.1:0"}
Names == {"example.com", "other.com"}
Certs == {"certA", "certB"}
SystemRoots == {"sysCA"}
PeerCerts == [root : Certs \cup SystemRoots \cup {"unknownCA"}, subject : Names]
ConnectErrors == {"refused", "timedout"}
HandshakeErrors == {"untrusted", "mismatch"}
Msgs == {"query"}

VARIABLES
  builder,     \* builder[b]: the TlsClientStreamBuilder value b
  att,         \* att[b]: the boxed future returned by b's build call
  handle,      \* handle[b]: the BufDnsStreamHandle returned by b's build call
  chan,        \* chan[c]: the outbound message channel c
  sendResult,  \* sendResult[b]: result of the last send through handle[b]
  call         \* call[b]: the arguments the caller gave to b's calls: the
               \* certificates to add_ca in order, the address to bind_addr,
               \* the address and name to build

vars == <<builder, att, handle, chan, sendResult, call>>

\* ------------------------------------------------------- Result / Poll values
Pending == [tag |-> "Pending"]
Ok(v) == [tag |-> "Ok", val |-> v]
Err(e) == [tag |-> "Err", val |-> e]

\* ------------------------------------------------------------ collaborators
\* TlsStreamBuilder::new: no anchors, no bind address
TlsStreamBuilder_new ==
  [state |-> "live", ca_chain |-> <<>>, bind_addr |-> "None"]

\* the builder value once moved out (self is taken by value)
Moved == [state |-> "consumed", ca_chain |-> <<>>, bind_addr |-> "None"]

\* a builder not constructed yet
Unborn == [state |-> "none", ca_chain |-> <<>>, bind_addr |-> "None"]

\* TlsStreamBuilder::add_ca
TlsStreamBuilder_add_ca(self, ca) ==
  [self EXCEPT !.ca_chain = Append(@, ca)]

\* TlsStreamBuilder::bind_addr
TlsStreamBuilder_bind_addr(self, bind_addr) ==
  [self EXCEPT !.bind_addr = bind_addr]

\* TlsStreamBuilder::build_with_future: creates channel c, keeps its
\* receiver (rx) in the raw future and returns its sender.  future is the
\* address the supplied connect operation goes to.  Nothing is started.
TlsStreamBuilder_build_with_future(self, future, name_server, dns_name, c) ==
  [stream_future |->
     [ca |-> self.ca_chain, bind |-> self.bind_addr,
      target |-> future, name_server |-> name_server, dns_name |-> dns_name,
      chan |-> c, rx |-> "held", conn |-> "idle", hs |-> "idle",
      socket |-> "none", nConn |-> 0, nHs |-> 0, raw |-> Pending],
   sender |-> c]

\* TlsStreamBuilder::build: the provider's connect to name_server is the
\* raw connect operation
TlsStreamBuilder_build(self, name_server, dns_name, c) ==
  TlsStreamBuilder_build_with_future(self, name_server, name_server, dns_name, c)

\* outcome of the handshake of raw future s against a peer presenting cert
HandshakeOutcome(s, cert) ==
  IF cert.root \notin ({s.ca[i] : i \in 1..Len(s.ca)} \cup SystemRoots)
  THEN "untrusted"
  ELSE IF cert.subject # s.dns_name THEN "mismatch" ELSE "ok"

\* error value of a failed handshake
HandshakeError(h) ==
  IF h = "mismatch" THEN [kind |-> "IdentityMismatch", detail |-> h]
  ELSE [kind |-> "HandshakeFailure", detail |-> h]

\* error value of a failed connect: the connect error itself
ConnectError(e) == [kind |-> "ConnectFailure", detail |-> e]

\* one poll of the Initiator's raw future.  c is what the first poll of the
\* connect operation finds ("inFlight" when it suspends).
poll_stream_future(s, c) ==
  LET conn1 == IF s.conn = "idle" THEN c ELSE s.conn
      s1 == [s EXCEPT !.conn = conn1,
                      !.nConn = IF s.conn = "idle" THEN @ + 1 ELSE @,
                      !.socket = IF s.conn = "idle" /\ c = "ok" THEN "open" ELSE @]
  IN IF conn1 = "inFlight" THEN s1
     ELSE IF conn1 \in ConnectErrors
       THEN [s1 EXCEPT !.rx = "dropped", !.raw = Err(ConnectError(conn1))]
     ELSE IF s1.hs = "idle"
       THEN [s1 EXCEPT !.hs = "inFlight", !.nHs = @ + 1]
     ELSE IF s1.hs = "inFlight" THEN s1
     ELSE IF s1.hs = "ok"
       THEN [s1 EXCEPT !.socket = "transport", !.rx = "transport",
                       !.raw = Ok([peer_addr |-> s.name_server,
                                   socket_peer |-> s.target,
                                   receiver |-> s.chan])]
     ELSE [s1 EXCEPT !.socket = "closed", !.rx = "dropped",
                     !.raw = Err(HandshakeError(s1.hs))]

\* TcpClientStream::from_stream: wraps the stream, keeps its metadata
from_stream(stream) ==
  [tcp_stream |-> stream, name_server |-> stream.peer_addr]

\* ProtoError::from(io::Error): lossless, the io error is the cause
ProtoError_from(e) == [kind |-> "Io", cause |-> e]

\* BufDnsStreamHandle::send on channel ch: unbounded, fails once the
\* receiver is gone
send(ch, rxAlive, m) ==
  IF rxAlive
  THEN [chan |-> [ch EXCEPT !.queue = Append(@, m)], result |-> "Ok"]
  ELSE [chan |-> ch, result |-> "Err"]

NoChan == [queue |-> <<>>, made |-> FALSE]
NewChan == [queue |-> <<>>, made |-> TRUE]

\* --------------------------------------------------------------- the core
\* .map_ok(TcpClientStream::from_stream), on a poll result of the inner
\* future: a success is converted, everything else passes
map_ok_from_stream(r) ==
  IF r.tag = "Ok" THEN Ok(from_stream(r.val)) ELSE r

\* .map_err(ProtoError::from), on a poll result of the inner future: a
\* failure is converted, everything else passes
map_err_ProtoError_from(r) ==
  IF r.tag = "Err" THEN Err(ProtoError_from(r.val)) ELSE r

\* a conversion that keeps a message and not the error
ProtoError_msg(e) ==
  [kind |-> "Msg", cause |-> [kind |-> "Msg", detail |-> "tls connect failed"]]

\* a wrapper that takes the address from the connected socket
from_socket(stream) ==
  [tcp_stream |-> stream, name_server |-> stream.socket_peer]

\* new_future with a failure transformation that loses the cause
new_future_lossy(r) ==
  IF r.tag = "Err" THEN Err(ProtoError_msg(r.val)) ELSE map_ok_from_stream(r)

\* new_future with a success transformation that re-derives the address
new_future_socket_addr(r) ==
  IF r.tag = "Ok" THEN Ok(from_socket(r.val)) ELSE map_err_ProtoError_from(r)

\* new_future that recovers from a failure with an unconnected stream
new_future_swallow(r) ==
  IF r.tag = "Err"
  THEN Ok(from_stream([peer_addr |-> "none", socket_peer |-> "none", receiver |-> 0]))
  ELSE map_ok_from_stream(r)

\* stream_future.map_ok(TcpClientStream::from_stream).map_err(ProtoError::from)
new_future(r) ==
  map_err_ProtoError_from(map_ok_from_stream(r))

\* TlsClientStreamBuilder::new
new == TlsStreamBuilder_new

\* add_ca that does not reach the wrapped builder
add_ca_dropped(self, ca) == self

\* TlsClientStreamBuilder::add_ca
add_ca(self, ca) == TlsStreamBuilder_add_ca(self, ca)

\* TlsClientStreamBuilder::bind_addr
bind_addr(self, addr) == TlsStreamBuilder_bind_addr(self, addr)

\* build_with_future that returns the sender of another channel
build_with_future_other_sender(self, future, name_server, dns_name, c) ==
  LET r == TlsStreamBuilder_build_with_future(self, future, name_server, dns_name, c)
  IN [new_future |-> [via |-> "build_with_future", life |-> "live",
                      polled |-> FALSE, fut |-> Pending,
                      inner |-> r.stream_future],
      sender |-> (r.sender % MaxBuilders) + 1]

\* TlsClientStreamBuilder::build_with_future
build_with_future(self, future, name_server, dns_name, c) ==
  LET r == TlsStreamBuilder_build_with_future(self, future, name_server, dns_name, c)
  IN [new_future |-> [via |-> "build_with_future", life |-> "live",
                      polled |-> FALSE, fut |-> Pending,
                      inner |-> r.stream_future],
      sender |-> r.sender]

\* build that hands out the sender of one shared channel
build_shared_sender(self, name_server, dns_name, c) ==
  LET r == TlsStreamBuilder_build(self, name_server, dns_name, c)
  IN [new_future |-> [via |-> "build", life |-> "live",
                      polled |-> FALSE, fut |-> Pending,
                      inner |-> r.stream_future],
      sender |-> 1]

\* build that starts the connect before returning
build_eager(self, name_server, dns_name, c) ==
  LET r == TlsStreamBuilder_build(self, name_server, dns_name, c)
  IN [new_future |-> [via |-> "build", life |-> "live",
                      polled |-> FALSE, fut |-> Pending,
                      inner |-> poll_stream_future(r.stream_future, "inFlight")],
      sender |-> r.sender]

\* TlsClientStreamBuilder::build
build(self, name_server, dns_name, c) ==
  LET r == TlsStreamBuilder_build(self, name_server, dns_name, c)
  IN [new_future |-> [via |-> "build", life |-> "live",
                      polled |-> FALSE, fut |-> Pending,
                      inner |-> r.stream_future],
      sender |-> r.sender]

\* a poll that applies the success transformation to the connect step
poll_new_future_early(a, c) ==
  LET s1 == poll_stream_future(a.inner, c)
  IN [a EXCEPT !.inner = s1, !.polled = TRUE,
               !.fut = IF s1.conn = "ok" /\ s1.raw.tag = "Pending"
                       THEN Ok(from_stream([peer_addr |-> s1.name_server,
                                            socket_peer |-> s1.target,
                                            receiver |-> s1.chan]))
                       ELSE new_future(s1.raw)]

\* a poll that keeps a failure to itself and stays pending
poll_new_future_stuck(a, c) ==
  LET s1 == poll_stream_future(a.inner, c)
  IN [a EXCEPT !.inner = s1, !.polled = TRUE,
               !.fut = IF s1.raw.tag = "Err" THEN Pending
                       ELSE new_future(s1.raw)]

\* a poll that starts the attempt over, once, when it failed
poll_new_future_retry(a, c) ==
  LET s1 == poll_stream_future(a.inner, c)
  IN IF s1.raw.tag = "Err" /\ s1.nConn < 2
     THEN [a EXCEPT !.polled = TRUE,
                    !.inner = [s1 EXCEPT !.conn = "idle", !.hs = "idle",
                                         !.rx = "held", !.socket = "none",
                                         !.raw = Pending]]
     ELSE [a EXCEPT !.inner = s1, !.polled = TRUE, !.fut = new_future(s1.raw)]

\* one poll of the boxed future: polls stream_future through the combinators
poll_new_future(a, c) ==
  LET s1 == poll_stream_future(a.inner, c)
  IN [a EXCEPT !.inner = s1, !.polled = TRUE, !.fut = new_future(s1.raw)]

\* a drop that leaves stream_future running, detached
drop_new_future_leak(a) == [a EXCEPT !.life = "dropped"]

\* dropping the boxed future drops stream_future, which it owns: the pending
\* connect or handshake is abandoned, the socket closed, the receiver dropped
drop_new_future(a) ==
  [a EXCEPT !.life = "dropped",
            !.inner.rx = "dropped",
            !.inner.conn = IF @ = "inFlight" THEN "aborted" ELSE @,
            !.inner.hs = IF @ = "inFlight" THEN "aborted" ELSE @,
            !.inner.socket = IF @ = "open" THEN "closed" ELSE @]

\* no build call made yet
NoFuture ==
  [via |-> "none", life |-> "live", polled |-> FALSE, fut |-> Pending,
   inner |-> TlsStreamBuilder_build(Unborn, "none", "none", 0).stream_future]

NoCall ==
  [name_server |-> "none", dns_name |-> "none", added |-> <<>>, bound |-> "None"]

\* ---------------------------------------------------------------- state
Init ==
  /\ builder = [b \in Builders |-> Unborn]
  /\ att = [b \in Builders |-> NoFuture]
  /\ handle = [b \in Builders |-> 0]
  /\ chan = [c \in ChanIds |-> NoChan]
  /\ sendResult = [b \in Builders |-> "none"]
  /\ call = [b \in Builders |-> NoCall]

IsBuilt(b) == att[b].via # "none"
IsPending(b) == IsBuilt(b) /\ att[b].life = "live" /\ att[b].fut.tag = "Pending"
IsResolved(b) == IsBuilt(b) /\ att[b].fut.tag # "Pending"
DroppedEarly(b) == IsBuilt(b) /\ att[b].life = "dropped" /\ att[b].fut.tag = "Pending"

\* the receiving end of channel c exists: the future of the call that
\* created c, or the stream made from it, still holds it
RxAlive(c) ==
  /\ c \in ChanIds
  /\ chan[c].made
  /\ att[c].inner.chan = c
  /\ att[c].inner.rx # "dropped"

\* TlsClientStreamBuilder::new
New(b) ==
  /\ builder[b].state = "none"
  /\ builder' = [builder EXCEPT ![b] = new]
  /\ UNCHANGED <<att, handle, chan, sendResult, call>>

\* add_ca that writes to a trust store every attempt reads
AddCa_global(b, ca) ==
  /\ builder[b].state = "live"
  /\ Len(builder[b].ca_chain) < MaxCa
  /\ builder' = [builder EXCEPT ![b] = add_ca(@, ca)]
  /\ call' = [call EXCEPT ![b].added = Append(@, ca)]
  /\ att' = [x \in Builders |->
               IF att[x].via # "none"
               THEN [att[x] EXCEPT !.inner.ca = Append(@, ca)]
               ELSE att[x]]
  /\ UNCHANGED <<handle, chan, sendResult>>

\* TlsClientStreamBuilder::add_ca
AddCa(b, ca) ==
  /\ builder[b].state = "live"
  /\ Len(builder[b].ca_chain) < MaxCa
  /\ builder' = [builder EXCEPT ![b] = add_ca(@, ca)]
  /\ call' = [call EXCEPT ![b].added = Append(@, ca)]
  /\ UNCHANGED <<att, handle, chan, sendResult>>

\* TlsClientStreamBuilder::bind_addr
BindAddr(b, addr) ==
  /\ builder[b].state = "live"
  /\ builder' = [builder EXCEPT ![b] = bind_addr(@, addr)]
  /\ call' = [call EXCEPT ![b].bound = addr]
  /\ UNCHANGED <<att, handle, chan, sendResult>>

\* a build call that borrows the builder and leaves it usable
Built_keep(b, r) ==
  /\ att' = [att EXCEPT ![b] = r.new_future]
  /\ handle' = [handle EXCEPT ![b] = r.sender]
  /\ chan' = [chan EXCEPT ![b] = NewChan]
  /\ UNCHANGED <<builder, sendResult>>

\* the effect of a build call of builder b that returned r; the Initiator
\* created channel b in it, and the builder was moved into the call
Built(b, r) ==
  /\ att' = [att EXCEPT ![b] = r.new_future]
  /\ handle' = [handle EXCEPT ![b] = r.sender]
  /\ chan' = [chan EXCEPT ![b] = NewChan]
  /\ builder' = [builder EXCEPT ![b] = Moved]
  /\ UNCHANGED sendResult

\* TlsClientStreamBuilder::build
Build(b, name_server, dns_name) ==
  /\ builder[b].state = "live"
  /\ call' = [call EXCEPT ![b].name_server = name_server,
                          ![b].dns_name = dns_name]
  /\ Built(b, build(builder[b], name_server, dns_name, b))

\* TlsClientStreamBuilder::build_with_future
BuildWithFuture(b, future, name_server, dns_name) ==
  /\ builder[b].state = "live"
  /\ call' = [call EXCEPT ![b].name_server = name_server,
                          ![b].dns_name = dns_name]
  /\ Built(b, build_with_future(builder[b], future, name_server, dns_name, b))

\* the caller's executor polls the returned future
Poll(b, c) ==
  /\ IsPending(b)
  /\ att' = [att EXCEPT ![b] = poll_new_future(@, c)]
  /\ UNCHANGED <<builder, handle, chan, sendResult, call>>

\* the future is polled again after it returned Ready: the combinator panics
PollResolved(b) ==
  /\ IsResolved(b)
  /\ att[b].life = "live"
  /\ att' = [att EXCEPT ![b].life = "panicked"]
  /\ UNCHANGED <<builder, handle, chan, sendResult, call>>

\* the caller drops the future before it resolved
Drop(b) ==
  /\ IsPending(b)
  /\ att' = [att EXCEPT ![b] = drop_new_future(@)]
  /\ UNCHANGED <<builder, handle, chan, sendResult, call>>

\* the connect operation completes in the provider
ConnectCompletes(b, outcome) ==
  /\ IsBuilt(b)
  /\ att[b].inner.conn = "inFlight"
  /\ att' = [att EXCEPT ![b].inner.conn = outcome,
                        ![b].inner.socket = IF outcome = "ok" THEN "open" ELSE @]
  /\ UNCHANGED <<builder, handle, chan, sendResult, call>>

\* the handshake completes in the secure-channel engine
HandshakeCompletes(b, cert) ==
  /\ IsBuilt(b)
  /\ att[b].inner.hs = "inFlight"
  /\ att' = [att EXCEPT ![b].inner.hs = HandshakeOutcome(att[b].inner, cert)]
  /\ UNCHANGED <<builder, handle, chan, sendResult, call>>

\* a producer enqueues a message through the handle
Send(b, m) ==
  /\ handle[b] # 0
  /\ Len(chan[handle[b]].queue) < MaxQueue
  /\ LET r == send(chan[handle[b]], RxAlive(handle[b]), m)
     IN /\ chan' = [chan EXCEPT ![handle[b]] = r.chan]
        /\ sendResult' = [sendResult EXCEPT ![b] = r.result]
  /\ UNCHANGED <<builder, att, handle, call>>

\* one builder, every input
Next ==
  \E b \in {1} :
    \/ New(b)
    \/ \E ca \in Certs : AddCa(b, ca)
    \/ \E addr \in BindAddrs : BindAddr(b, addr)
    \/ \E ns \in Addrs, dn \in Names : Build(b, ns, dn)
    \/ \E f \in Addrs, ns \in Addrs, dn \in Names : BuildWithFuture(b, f, ns, dn)
    \/ \E c \in {"inFlight", "ok"} \cup ConnectErrors : Poll(b, c)
    \/ PollResolved(b)
    \/ Drop(b)
    \/ \E o \in {"ok"} \cup ConnectErrors : ConnectCompletes(b, o)
    \/ \E cert \in PeerCerts : HandshakeCompletes(b, cert)
    \/ \E m \in Msgs : Send(b, m)

Spec == Init /\ [][Next]_vars

\* Spec with a caller that keeps polling a pending future, a provider whose
\* connect completes and a peer whose handshake completes
SpecLive ==
  /\ Init
  /\ [][Next]_vars
  /\ WF_vars(\E c \in {"inFlight", "ok"} \cup ConnectErrors : Poll(1, c))
  /\ WF_vars(\E o \in {"ok"} \cup ConnectErrors : ConnectCompletes(1, o))
  /\ WF_vars(\E cert \in PeerCerts : HandshakeCompletes(1, cert))

\* every builder, unconfigured, one remote address, one connect error and
\* one peer certificate; a resolved future is not polled again
PairAddr == "93.184.216.34:853"
PairName == "example.com"
PairCerts == {[root |-> "sysCA", subject |-> "example.com"]}

NextPairs ==
  \E b \in Builders :
    \/ New(b)
    \/ Build(b, PairAddr, PairName)
    \/ BuildWithFuture(b, PairAddr, PairAddr, PairName)
    \/ Poll(b, "inFlight")
    \/ Drop(b)
    \/ \E o \in {"ok", "refused"} : ConnectCompletes(b, o)
    \/ \E cert \in PairCerts : HandshakeCompletes(b, cert)
    \/ \E m \in Msgs : Send(b, m)

SpecPairs == Init /\ [][NextPairs]_vars

\* every builder is configured and built, with one certificate, one bind
\* address and one remote address; the attempt of builder 1 is driven
\* against a peer whose certificate is rooted in that certificate
ConfigCerts == {[root |-> "certA", subject |-> "example.com"]}

NextConfig ==
  \/ \E b \in Builders :
       \/ New(b)
       \/ AddCa(b, "certA")
       \/ \E addr \in BindAddrs : BindAddr(b, addr)
       \/ Build(b, PairAddr, PairName)
       \/ BuildWithFuture(b, PairAddr, PairAddr, PairName)
  \/ Poll(1, "ok")
  \/ \E cert \in ConfigCerts : HandshakeCompletes(1, cert)

SpecConfig == Init /\ [][NextConfig]_vars

\* builder 1 is built with build, builder 2 with build_with_future on the
\* connect operation the provider makes for the same remote address; they
\* get the same configuration and arguments, and every step of the caller,
\* the provider and the peer is taken on both
Both == {1, 2}

EqNew ==
  /\ \A x \in Both : builder[x].state = "none"
  /\ builder' = [x \in Builders |-> IF x \in Both THEN new ELSE builder[x]]
  /\ UNCHANGED <<att, handle, chan, sendResult, call>>

EqAddCa(ca) ==
  /\ \A x \in Both : builder[x].state = "live" /\ Len(builder[x].ca_chain) < MaxCa
  /\ builder' = [x \in Builders |->
                   IF x \in Both THEN add_ca(builder[x], ca) ELSE builder[x]]
  /\ call' = [x \in Builders |->
                IF x \in Both THEN [call[x] EXCEPT !.added = Append(@, ca)]
                ELSE call[x]]
  /\ UNCHANGED <<att, handle, chan, sendResult>>

EqBindAddr(addr) ==
  /\ \A x \in Both : builder[x].state = "live"
  /\ builder' = [x \in Builders |->
                   IF x \in Both THEN bind_addr(builder[x], addr) ELSE builder[x]]
  /\ call' = [x \in Builders |->
                IF x \in Both THEN [call[x] EXCEPT !.bound = addr] ELSE call[x]]
  /\ UNCHANGED <<att, handle, chan, sendResult>>

EqBuild(name_server, dns_name) ==
  /\ \A x \in Both : builder[x].state = "live"
  /\ LET r1 == build(builder[1], name_server, dns_name, 1)
         r2 == build_with_future(builder[2], name_server, name_server, dns_name, 2)
     IN /\ att' = [att EXCEPT ![1] = r1.new_future, ![2] = r2.new_future]
        /\ handle' = [handle EXCEPT ![1] = r1.sender, ![2] = r2.sender]
  /\ chan' = [x \in ChanIds |-> IF x \in Both THEN NewChan ELSE chan[x]]
  /\ builder' = [x \in Builders |-> IF x \in Both THEN Moved ELSE builder[x]]
  /\ call' = [x \in Builders |->
                IF x \in Both
                THEN [call[x] EXCEPT !.name_server = name_server,
                                     !.dns_name = dns_name]
                ELSE call[x]]
  /\ UNCHANGED sendResult

EqPoll(c) ==
  /\ \E x \in Both : IsPending(x)
  /\ att' = [x \in Builders |->
               IF x \in Both /\ IsPending(x) THEN poll_new_future(att[x], c)
               ELSE att[x]]
  /\ UNCHANGED <<builder, handle, chan, sendResult, call>>

EqPollResolved ==
  /\ \E x \in Both : IsResolved(x) /\ att[x].life = "live"
  /\ att' = [x \in Builders |->
               IF x \in Both /\ IsResolved(x) /\ att[x].life = "live"
               THEN [att[x] EXCEPT !.life = "panicked"]
               ELSE att[x]]
  /\ UNCHANGED <<builder, handle, chan, sendResult, call>>

EqDrop ==
  /\ \E x \in Both : IsPending(x)
  /\ att' = [x \in Builders |->
               IF x \in Both /\ IsPending(x) THEN drop_new_future(att[x])
               ELSE att[x]]
  /\ UNCHANGED <<builder, handle, chan, sendResult, call>>

EqConnectCompletes(outcome) ==
  /\ \E x \in Both : IsBuilt(x) /\ att[x].inner.conn = "inFlight"
  /\ att' = [x \in Builders |->
               IF x \in Both /\ IsBuilt(x) /\ att[x].inner.conn = "inFlight"
               THEN [att[x] EXCEPT
                       !.inner.conn = outcome,
                       !.inner.socket = IF outcome = "ok" THEN "open" ELSE @]
               ELSE att[x]]
  /\ UNCHANGED <<builder, handle, chan, sendResult, call>>

EqHandshakeCompletes(cert) ==
  /\ \E x \in Both : IsBuilt(x) /\ att[x].inner.hs = "inFlight"
  /\ att' = [x \in Builders |->
               IF x \in Both /\ IsBuilt(x) /\ att[x].inner.hs = "inFlight"
               THEN [att[x] EXCEPT
                       !.inner.hs = HandshakeOutcome(att[x].inner, cert)]
               ELSE att[x]]
  /\ UNCHANGED <<builder, handle, chan, sendResult, call>>

\* the send through handle[x] is made for each x of Both, on the channel
\* that handle leads to
EqSend(m) ==
  /\ \A x \in Both : handle[x] \in Both /\ Len(chan[handle[x]].queue) < MaxQueue
  /\ handle[1] # handle[2]
  /\ chan' = [c \in ChanIds |->
                IF \E x \in Both : handle[x] = c
                THEN send(chan[c], RxAlive(c), m).chan
                ELSE chan[c]]
  /\ sendResult' = [x \in Builders |->
                      IF x \in Both
                      THEN send(chan[handle[x]], RxAlive(handle[x]), m).result
                      ELSE sendResult[x]]
  /\ UNCHANGED <<builder, att, handle, call>>

NextEquiv ==
  \/ EqNew
  \/ \E ca \in Certs : EqAddCa(ca)
  \/ \E addr \in BindAddrs : EqBindAddr(addr)
  \/ \E ns \in Addrs, dn \in Names : EqBuild(ns, dn)
  \/ \E c \in {"inFlight", "ok"} \cup ConnectErrors : EqPoll(c)
  \/ EqPollResolved
  \/ EqDrop
  \/ \E o \in {"ok"} \cup ConnectErrors : EqConnectCompletes(o)
  \/ \E cert \in PeerCerts : EqHandshakeCompletes(cert)
  \/ \E m \in Msgs : EqSend(m)

SpecEquiv == Init /\ [][NextEquiv]_vars

\* ------------------------------------------------------------- properties

\* C1: when the connect step failed with error E, the future is never
\* resolved Ok; once the raw future has reported the failure the future is
\* resolved Err, and the cause carried by that error is E
C1_ConnectFailureIsCause ==
  \A b \in Builders :
    (IsBuilt(b) /\ att[b].inner.conn \in ConnectErrors) =>
      /\ att[b].fut.tag # "Ok"
      /\ (att[b].inner.raw.tag = "Err" => att[b].fut.tag = "Err")
      /\ (att[b].fut.tag = "Err" =>
            /\ att[b].fut.val.cause = ConnectError(att[b].inner.conn)
            /\ att[b].fut.val.cause.detail = att[b].inner.conn)

C1_Witness ==
  \E b \in Builders :
    /\ att[b].via = "build_with_future"
    /\ att[b].inner.conn = "timedout"
    /\ att[b].fut.tag = "Err"

\* C2: when connect and handshake both succeeded the future is never
\* resolved Err; once the raw future has produced the stream the future is
\* resolved Ok, and the Transport's remote address is the address the
\* caller passed, also when the supplied connect future went elsewhere
C2_RemoteAddressKept ==
  \A b \in Builders :
    (IsBuilt(b) /\ att[b].inner.conn = "ok" /\ att[b].inner.hs = "ok") =>
      /\ att[b].fut.tag # "Err"
      /\ (att[b].inner.raw.tag = "Ok" => att[b].fut.tag = "Ok")
      /\ (att[b].fut.tag = "Ok" =>
            att[b].fut.val.name_server = call[b].name_server)

C2_Witness ==
  \E b \in Builders :
    /\ att[b].via = "build_with_future"
    /\ att[b].fut.tag = "Ok"
    /\ att[b].inner.target # call[b].name_server
    /\ att[b].fut.val.name_server = call[b].name_server

\* C3: when the handshake failed on an untrusted certificate or a peer name
\* mismatch, the future is never resolved Ok, and its failure carries the
\* HandshakeFailure, respectively IdentityMismatch, kind
C3_HandshakeFailureNeverOk ==
  \A b \in Builders :
    (IsBuilt(b) /\ att[b].inner.hs \in HandshakeErrors) =>
      /\ att[b].fut.tag # "Ok"
      /\ (att[b].inner.raw.tag = "Err" => att[b].fut.tag = "Err")
      /\ (att[b].fut.tag = "Err" =>
            att[b].fut.val.cause.kind =
              IF att[b].inner.hs = "mismatch" THEN "IdentityMismatch"
              ELSE "HandshakeFailure")

C3_Witness ==
  \E b \in Builders :
    /\ att[b].via = "build"
    /\ call[b].dns_name = "example.com"
    /\ att[b].inner.hs = "mismatch"
    /\ att[b].fut.tag = "Err"

\* C4: the future is Pending, Ok or Err; Ok only after connect and handshake
\* both succeeded and Err only after one of them failed; and a resolved
\* future keeps its value in every later step
C4_OneShot ==
  /\ [](\A b \in Builders :
          /\ att[b].fut.tag \in {"Pending", "Ok", "Err"}
          /\ (att[b].fut.tag = "Ok" =>
                att[b].inner.conn = "ok" /\ att[b].inner.hs = "ok")
          /\ (att[b].fut.tag = "Err" =>
                \/ att[b].inner.conn \in ConnectErrors
                \/ att[b].inner.hs \in HandshakeErrors))
  /\ [][\A b \in Builders :
          att[b].fut.tag # "Pending" => att'[b].fut = att[b].fut]_vars

C4_Witness ==
  \E b \in Builders : att[b].fut.tag = "Ok" /\ att[b].life = "panicked"

\* C5: an instance starts at most one connect and at most one handshake,
\* none after a connect failure, and a resolved instance started exactly one
\* connect
C5_SingleAttempt ==
  \A b \in Builders :
    IsBuilt(b) =>
      /\ att[b].inner.nConn <= 1
      /\ att[b].inner.nHs <= 1
      /\ (att[b].inner.conn \in ConnectErrors => att[b].inner.nHs = 0)
      /\ (IsResolved(b) => att[b].inner.nConn = 1)
      /\ (att[b].inner.hs # "idle" => att[b].inner.nHs = 1)

C5_Witness ==
  \E b \in Builders :
    /\ att[b].fut.tag = "Err"
    /\ att[b].inner.hs = "untrusted"
    /\ att[b].inner.nConn = 1
    /\ att[b].inner.nHs = 1

\* C6: build returns future and handle together, and until the future is
\* first polled no connect or handshake has been started and no socket exists
C6_NoIoBeforePoll ==
  \A b \in Builders :
    IsBuilt(b) =>
      /\ handle[b] # 0
      /\ (~att[b].polled =>
            /\ att[b].inner.conn = "idle"
            /\ att[b].inner.hs = "idle"
            /\ att[b].inner.socket = "none"
            /\ att[b].inner.nConn = 0
            /\ att[b].inner.nHs = 0
            /\ att[b].fut.tag = "Pending")

C6_Witness ==
  \E b \in Builders :
    /\ att[b].via = "build"
    /\ ~att[b].polled
    /\ sendResult[b] = "Ok"

\* C7: a builder has a handle exactly when it has a future; the handle is the
\* sender of the channel the Initiator created in that call, whose receiver
\* that call's future holds; no two calls share a channel, and there are as
\* many channels as calls
C7_OnePairPerCall ==
  /\ \A b \in Builders :
       /\ (handle[b] # 0) <=> IsBuilt(b)
       /\ IsBuilt(b) =>
            /\ handle[b] = att[b].inner.chan
            /\ chan[handle[b]].made
            /\ \A b2 \in Builders \ {b} :
                 IsBuilt(b2) =>
                   /\ handle[b2] # handle[b]
                   /\ att[b2].inner.chan # handle[b]
  /\ Cardinality({c \in ChanIds : chan[c].made})
       = Cardinality({b \in Builders : IsBuilt(b)})

C7_Witness ==
  /\ att[1].via = "build"
  /\ att[2].via = "build_with_future"
  /\ sendResult[1] = "Ok"
  /\ sendResult[2] = "Ok"

\* C8: while the future is pending, polled or not, no send through the paired
\* handle has failed or blocked, the receiving end exists, and an accepted
\* message is in the queue
C8_EnqueueWhilePending ==
  \A b \in Builders :
    IsPending(b) =>
      /\ sendResult[b] \in {"none", "Ok"}
      /\ RxAlive(handle[b])
      /\ (sendResult[b] = "Ok" => Len(chan[handle[b]].queue) >= 1)

C8_Witness ==
  \E b \in Builders :
    /\ IsPending(b)
    /\ att[b].polled
    /\ att[b].inner.conn \in ConnectErrors
    /\ sendResult[b] = "Ok"

\* C9: once the future was dropped unresolved, the receiving end of the
\* paired handle is gone, it stays gone, the queue accepts nothing more and
\* every send through the handle reports a failure
C9_HandleFailsAfterDrop ==
  /\ [](\A b \in Builders : DroppedEarly(b) => ~RxAlive(handle[b]))
  /\ [][\A b \in Builders :
          DroppedEarly(b) =>
            /\ DroppedEarly(b)'
            /\ chan'[handle[b]] = chan[handle[b]]
            /\ (sendResult'[b] # sendResult[b] => sendResult'[b] = "Err")]_vars

C9_Witness ==
  \E b \in Builders :
    /\ DroppedEarly(b)
    /\ sendResult[b] = "Err"
    /\ Len(chan[handle[b]].queue) = 0

\* C10: once the future was dropped unresolved, no connect or handshake is in
\* flight, no socket is open, and the future never changes again: no further
\* step, no resolution, no panic
C10_DropAborts ==
  /\ [](\A b \in Builders :
          DroppedEarly(b) =>
            /\ att[b].inner.conn # "inFlight"
            /\ att[b].inner.hs # "inFlight"
            /\ att[b].inner.socket \in {"none", "closed"})
  /\ [][\A b \in Builders : DroppedEarly(b) => att'[b] = att[b]]_vars

C10_Witness ==
  \E b \in Builders :
    /\ DroppedEarly(b)
    /\ att[b].inner.hs = "aborted"
    /\ att[b].inner.socket = "closed"

\* what the owner of builder b's pair can observe of it: the future, the
\* handle, the queue behind the handle and the results of its sends
PairState(b) ==
  <<att[b], handle[b], sendResult[b],
    IF handle[b] \in ChanIds THEN chan[handle[b]] ELSE NoChan,
    RxAlive(handle[b])>>

\* C11 (as amended): the pairs of two build calls, made on two builder
\* values since build consumes its builder, are independent: no step (poll,
\* resolution, failure, drop, enqueue, build) changes more than one pair
C11_IndependentPairs ==
  [][Cardinality({b \in Builders : PairState(b)' # PairState(b)}) <= 1]_vars

C11_Witness ==
  /\ att[1].fut.tag = "Err"
  /\ IsPending(2)
  /\ att[2].polled
  /\ sendResult[2] = "Ok"
  /\ sendResult[1] = "Err"

\* C11 (as stated): the two calls are made on the same builder, which thus
\* is still usable after a build call, and their pairs are independent
C11_SameBuilderTwice ==
  /\ [](\A b \in Builders : IsBuilt(b) => builder[b].state = "live")
  /\ [][Cardinality({b \in Builders : PairState(b)' # PairState(b)}) <= 1]_vars

\* C12: the trust anchors and the bind address of a built attempt never
\* change, whatever add_ca and bind_addr calls are made after its build call
C12_ConfigFixedAtBuild ==
  [][\A b \in Builders :
       IsBuilt(b) =>
         /\ att'[b].inner.ca = att[b].inner.ca
         /\ att'[b].inner.bind = att[b].inner.bind]_vars

C12_Witness ==
  /\ IsBuilt(1)
  /\ att[1].inner.ca = <<>>
  /\ att[1].inner.bind = "None"
  /\ att[1].inner.hs = "untrusted"
  /\ att[1].fut.tag = "Err"
  /\ builder[2].ca_chain = <<"certA">>
  /\ builder[2].bind_addr # "None"

\* C13: a live builder holds exactly the certificates passed to add_ca, in
\* order, and the address passed to bind_addr, none when there was no call;
\* the Initiator's attempt got exactly those at build time; and a builder
\* that was constructed but not built has no future, handle or channel
C13_ConfigAccumulated ==
  \A b \in Builders :
    /\ builder[b].state = "live" =>
         /\ builder[b].ca_chain = call[b].added
         /\ builder[b].bind_addr = call[b].bound
         /\ att[b] = NoFuture
         /\ handle[b] = 0
         /\ ~chan[b].made
    /\ IsBuilt(b) =>
         /\ att[b].inner.ca = call[b].added
         /\ att[b].inner.bind = call[b].bound

C13_Witness ==
  \E b \in Builders :
    /\ IsBuilt(b)
    /\ att[b].inner.ca = <<"certA", "certB">>
    /\ att[b].inner.bind = "127.0.0.1:0"
    /\ att[b].inner.hs = "ok"

\* C14: a resolved future has a resolved raw future of the same outcome, and
\* its value is that outcome's transformation of the raw value; a handshake
\* exists only on a connect that succeeded
C14_TransformAfterRaw ==
  \A b \in Builders :
    IsBuilt(b) =>
      /\ att[b].fut.tag # "Pending" => att[b].inner.raw.tag = att[b].fut.tag
      /\ att[b].fut.tag = "Ok" =>
           att[b].fut.val = from_stream(att[b].inner.raw.val)
      /\ att[b].fut.tag = "Err" =>
           att[b].fut.val = ProtoError_from(att[b].inner.raw.val)
      /\ att[b].inner.hs # "idle" => att[b].inner.conn = "ok"
      /\ att[b].inner.nHs <= att[b].inner.nConn

C14_Witness ==
  \E b \in Builders :
    /\ att[b].fut.tag = "Ok"
    /\ att[b].inner.raw.tag = "Ok"
    /\ att[b].inner.nConn = 1
    /\ att[b].inner.nHs = 1
    /\ att[b].life = "live"

\* what a caller can observe of builder b's future and handle
Observed(b) ==
  [built |-> IsBuilt(b),
   life |-> att[b].life,
   polled |-> att[b].polled,
   tag |-> att[b].fut.tag,
   name_server |-> IF att[b].fut.tag = "Ok" THEN att[b].fut.val.name_server
                   ELSE "none",
   connected_to |-> IF att[b].fut.tag = "Ok"
                    THEN att[b].fut.val.tcp_stream.socket_peer ELSE "none",
   error |-> IF att[b].fut.tag = "Err" THEN att[b].fut.val
             ELSE ProtoError_from(ConnectError("none")),
   conn |-> att[b].inner.conn,
   hs |-> att[b].inner.hs,
   socket |-> att[b].inner.socket,
   nConn |-> att[b].inner.nConn,
   nHs |-> att[b].inner.nHs,
   has_handle |-> handle[b] # 0,
   queue |-> IF handle[b] \in ChanIds THEN chan[handle[b]].queue ELSE <<>>,
   rxAlive |-> RxAlive(handle[b]),
   sendResult |-> sendResult[b]]

C16_NoOwnSuspension ==
  /\ [][\A b \in Builders :
          (\E c \in {"inFlight", "ok"} \cup ConnectErrors : Poll(b, c)) =>
            (att'[b].fut.tag = "Pending" =>
               \/ att'[b].inner.conn = "inFlight"
               \/ att'[b].inner.hs = "inFlight")]_vars
  /\ \A b \in Builders :
       IsBuilt(b) ~> (IsResolved(b) \/ att[b].life = "dropped")

C16_Witness ==
  \E b \in Builders :
    /\ att[b].fut.tag = "Ok"
    /\ att[b].polled
    /\ att[b].inner.nHs = 1
    /\ att[b].life = "live"
    /\ sendResult[b] = "none"

\* C17: a builder that was built is consumed; from then on its configuration
\* and build arguments get no further call, and its pair stays the one pair
\* it yielded: same handle, same channel, same future, never a fresh one
C17_BuilderConsumed ==
  /\ [](\A b \in Builders : IsBuilt(b) => builder[b] = Moved)
  /\ [][\A b \in Builders :
          IsBuilt(b) =>
            /\ builder'[b] = builder[b]
            /\ call'[b] = call[b]
            /\ handle'[b] = handle[b]
            /\ att'[b].via = att[b].via
            /\ att'[b].inner.chan = att[b].inner.chan
            /\ (att[b].polled => att'[b].polled)
            /\ att'[b].inner.nConn >= att[b].inner.nConn]_vars

C17_Witness ==
  \E b \in Builders :
    /\ att[b].via = "build_with_future"
    /\ builder[b].state = "consumed"
    /\ call[b].added = <<"certB">>
    /\ att[b].fut.tag = "Err"
    /\ att[b].life = "panicked"

====
